---- MODULE Spec2Model ----
(***************************************************************************)
(* Verification model of thednp/framework-starter.                         *)
(*                                                                         *)
(* Part 1 (specification Spec): the reactive core of framework/state.ts:  *)
(* signal(), effect(), the module-level Observer pointer.  The program is *)
(* single-threaded and synchronous, so a run is a call stack: top-level   *)
(* calls are made when the stack is empty, and while it is not empty only *)
(* the frame on top can take a step.  The body of an effect's fn is user  *)
(* code: each of its steps is a nondeterministic choice between reading a *)
(* signal, writing a signal, creating a nested effect, returning (with or *)
(* without a cleanup function) and throwing.                              *)
(***************************************************************************)
EXTENDS Integers, Sequences, FiniteSets, TLC

VARIABLES
    value,        \* value[s]: the closure variable `value` of signal s
    observers,    \* observers[s]: the Set<Observer> of signal s, in insertion order
    Observer,     \* the module-level `let Observer`
    nEffects,     \* number of effect() calls made so far
    cleanup,      \* cleanup[e]: the closure variable `cleanup` of effect e
    gen,          \* gen[e]: what the closure variable `compute` of effect e holds:
                  \*   0 the original compute, k > 0 the k-th `() => {}`
    hasDisposer,  \* hasDisposer[e]: effect() returned e's disposer to its caller
    stack,        \* the call stack, innermost frame last
    \* ---- history (not program state) ----
    steps,        \* calls made so far by the caller and by the bodies of fn
    lastCall,     \* the current (or last) top-level call
    threw,        \* an exception escaped the last top-level call
    runs,         \* runs[e]: runs of e's fn that setter loops have started since the
                  \*   top-level call began
    lastReads,    \* lastReads[e]: signals e's most recent run of fn has read
    everRead,     \* everRead[e]: signals the runs of e's fn have read so far
    expect,       \* effects whose most recent run had read the signal being written
    disposed,     \* disposed[e]: e's disposer has been called
    cleanupCalls, \* cleanupCalls[e]: invocations of the cleanup function cleanup[e] holds
    lastSet,      \* lastSet[s]: the initial value, then the argument of the last setter call
    ret,          \* the value the most recent accessor call returned
    \* ---- the element builder (specifications SpecAttr and SpecDom) ----
    el,           \* the element: its namespaceURI and its attribute list
    domSteps,     \* history: calls made so far on the element
    lastAttr,     \* history: the most recent call of setOrRemoveAttr
    binds,        \* binds[e]: the closure fn of the e-th effect createElement made
    evals,        \* history: evals[e]: runs of binds[e] during the last call
    call,         \* history: the createElement call
    write         \* history: the most recent setter call after it

coreVars == <<value, observers, Observer, nEffects, cleanup, gen, hasDisposer, stack>>
histVars == <<steps, lastCall, threw, runs, lastReads, everRead, expect, disposed, cleanupCalls, lastSet, ret>>
domVars == <<el, domSteps, lastAttr, binds, evals, call, write>>
vars == <<coreVars, histVars, domVars>>

\* ---- bounds ----
NumSignals == 2
MaxVal == 1
MaxSteps == 5
MaxAttrCalls == 2
MaxDomSteps == 3

Signals == 1..NumSignals
Values == 0..MaxVal
Effects == 1..MaxSteps

\* `null` for the Observer pointer; an observer is the closure <<e, g>>:
\* g = 0 is e's original compute, g > 0 the g-th no-op the disposer assigned.
Null == [e |-> 0, g |-> 0]
ObserverOf(e) == [e |-> e, g |-> gen[e]]

\* (mutation of SetAdd: a list, not a set)
SetAddAgain(seq, o) == Append(seq, o)

\* Set.prototype.add on an insertion-ordered set
SetAdd(seq, o) == IF \E i \in 1..Len(seq) : seq[i] = o THEN seq ELSE Append(seq, o)

\* signal accessor, lines 11-13: register the running computation
AccessorAdd(obs, cur, s) ==
    IF cur # Null
    THEN [obs EXCEPT ![s] = SetAdd(@, cur)]
    ELSE obs

\* (mutation of SetterStore: the observers are notified before the store)
SetterNotifiesFirst(s, v) == value

\* signal setter, line 17: value = v
SetterStore(s, v) == [value EXCEPT ![s] = v]

\* A frame of fn: the effect, whether effect() is the caller (or a setter
\* loop, then with the setter's signal and argument).  A frame of a setter:
\* its signal, its argument and the position of its loop.
FnFrame(e, init, s, v) ==
    [k |-> "fn", e |-> e, init |-> init, s |-> s, v |-> v, i |-> 0]
SetFrame(s, v) ==
    [k |-> "set", e |-> 0, init |-> FALSE, s |-> s, v |-> v, i |-> 1]

Top == stack[Len(stack)]
Pop == SubSeq(stack, 1, Len(stack) - 1)
Idle == stack = <<>>
CanCall == steps < MaxSteps

CoreInit ==
    /\ value = [s \in Signals |-> 0]
    /\ observers = [s \in Signals |-> <<>>]
    /\ Observer = Null
    /\ nEffects = 0
    /\ cleanup = [e \in Effects |-> FALSE]
    /\ gen = [e \in Effects |-> 0]
    /\ hasDisposer = [e \in Effects |-> FALSE]
    /\ stack = <<>>
    /\ steps = 0
    /\ lastCall = "none"
    /\ threw = FALSE
    /\ runs = [e \in Effects |-> 0]
    /\ lastReads = [e \in Effects |-> {}]
    /\ everRead = [e \in Effects |-> {}]
    /\ expect = {}
    /\ disposed = [e \in Effects |-> FALSE]
    /\ cleanupCalls = [e \in Effects |-> 0]
    /\ lastSet = value
    /\ ret = 0

\* compute(), lines 29-33 up to the call of fn, entered above the frames `base`
\* with run counters r: the previous cleanup runs (and may throw: the finally
\* of line 35 resets Observer and the exception unwinds the whole stack),
\* Observer = compute (whatever the variable `compute` holds now), fn starts.
Compute(e, base, init, s, v, r) ==
    \E cleanupThrows \in BOOLEAN :
        /\ cleanupThrows => cleanup[e]
        /\ cleanupCalls' = IF cleanup[e]
                           THEN [cleanupCalls EXCEPT ![e] = @ + 1]
                           ELSE cleanupCalls
        /\ threw' = cleanupThrows
        /\ IF cleanupThrows
           THEN /\ stack' = <<>>
                /\ Observer' = Null
                /\ runs' = r
                /\ UNCHANGED lastReads
           ELSE /\ stack' = Append(base, FnFrame(e, init, s, v))
                /\ Observer' = ObserverOf(e)
                /\ runs' = IF init THEN r ELSE [r EXCEPT ![e] = @ + 1]
                /\ lastReads' = [lastReads EXCEPT ![e] = {}]
        /\ UNCHANGED <<cleanup, gen, hasDisposer>>

NoRuns == [e \in Effects |-> 0]

\* ---- top-level calls ----

\* effect(fn), lines 25-38
Effect ==
    /\ Idle
    /\ CanCall
    /\ steps' = steps + 1
    /\ lastCall' = "effect"
    /\ nEffects' = nEffects + 1
    /\ expect' = {}
    /\ Compute(nEffects + 1, <<>>, TRUE, 0, 0, NoRuns)
    /\ UNCHANGED <<value, observers, disposed, lastSet, ret>>
    /\ UNCHANGED <<everRead, domVars>>

\* setter(v), lines 16-17; the loop of lines 18-20 is SetterLoop
Set(s, v) ==
    /\ Idle
    /\ CanCall
    /\ steps' = steps + 1
    /\ lastCall' = "set"
    /\ value' = SetterStore(s, v)
    /\ lastSet' = [lastSet EXCEPT ![s] = v]
    /\ stack' = <<SetFrame(s, v)>>
    /\ expect' = {e \in 1..nEffects : ~disposed[e] /\ s \in lastReads[e]}
    /\ runs' = NoRuns
    /\ threw' = FALSE
    /\ UNCHANGED <<observers, Observer, nEffects, cleanup, gen, hasDisposer,
                   lastReads, disposed, cleanupCalls, ret>>
    /\ UNCHANGED <<everRead, domVars>>

\* accessor(), lines 10-15, called outside any effect
Get(s) ==
    /\ Idle
    /\ CanCall
    /\ steps' = steps + 1
    /\ lastCall' = "get"
    /\ observers' = AccessorAdd(observers, Observer, s)
    /\ ret' = value[s]
    /\ expect' = {}
    /\ runs' = NoRuns
    /\ threw' = FALSE
    /\ UNCHANGED <<value, Observer, nEffects, cleanup, gen, hasDisposer, stack,
                   lastReads, disposed, cleanupCalls, lastSet>>
    /\ UNCHANGED <<everRead, domVars>>

\* the disposer, lines 40-43: if (cleanup) cleanup(); compute = () => {}
Dispose(e) ==
    /\ Idle
    /\ CanCall
    /\ steps' = steps + 1
    /\ lastCall' = "dispose"
    /\ hasDisposer[e]
    /\ \E cleanupThrows \in BOOLEAN :
        /\ cleanupThrows => cleanup[e]
        /\ cleanupCalls' = IF cleanup[e]
                           THEN [cleanupCalls EXCEPT ![e] = @ + 1]
                           ELSE cleanupCalls
        /\ threw' = cleanupThrows
        /\ gen' = IF cleanupThrows THEN gen ELSE [gen EXCEPT ![e] = @ + 1]
    /\ disposed' = [disposed EXCEPT ![e] = TRUE]
    /\ expect' = {}
    /\ runs' = NoRuns
    /\ UNCHANGED <<value, observers, Observer, nEffects, cleanup, hasDisposer, stack,
                   lastReads, lastSet, ret>>
    /\ UNCHANGED <<everRead, domVars>>

\* ---- steps of the running call ----

InFn == ~Idle /\ Top.k = "fn"

\* fn calls an accessor, lines 10-15
FnGet(s) ==
    /\ InFn
    /\ CanCall
    /\ steps' = steps + 1
    /\ observers' = AccessorAdd(observers, Observer, s)
    /\ lastReads' = [lastReads EXCEPT ![Top.e] = @ \cup {s}]
    /\ everRead' = [everRead EXCEPT ![Top.e] = @ \cup {s}]
    /\ ret' = value[s]
    /\ UNCHANGED <<value, Observer, nEffects, cleanup, gen, hasDisposer, stack,
                   lastCall, threw, runs, expect, disposed, cleanupCalls, lastSet>>
    /\ UNCHANGED domVars

\* fn calls a setter, lines 16-17
FnSet(s, v) ==
    /\ InFn
    /\ CanCall
    /\ steps' = steps + 1
    /\ value' = SetterStore(s, v)
    /\ lastSet' = [lastSet EXCEPT ![s] = v]
    /\ stack' = Append(stack, SetFrame(s, v))
    /\ UNCHANGED <<observers, Observer, nEffects, cleanup, gen, hasDisposer,
                   lastCall, threw, runs, lastReads, expect, disposed, cleanupCalls, ret>>
    /\ UNCHANGED <<everRead, domVars>>

\* fn calls effect(), lines 25-38
FnEffect ==
    /\ InFn
    /\ CanCall
    /\ steps' = steps + 1
    /\ nEffects' = nEffects + 1
    /\ Compute(nEffects + 1, stack, TRUE, 0, 0, runs)
    /\ UNCHANGED <<value, observers, lastCall, expect, disposed, lastSet, ret>>
    /\ UNCHANGED <<everRead, domVars>>

\* (mutation of FnReturn: compute without the finally of lines 34-36)
FnReturnNoFinally(c) ==
    /\ InFn
    /\ cleanup' = [cleanup EXCEPT ![Top.e] = c]
    /\ cleanupCalls' = [cleanupCalls EXCEPT ![Top.e] = 0]
    /\ hasDisposer' = [hasDisposer EXCEPT ![Top.e] = @ \/ Top.init]
    /\ stack' = Pop
    /\ UNCHANGED <<value, observers, Observer, nEffects, gen,
                   steps, lastCall, threw, runs, lastReads, expect, disposed, lastSet, ret>>
    /\ UNCHANGED <<everRead, domVars>>

\* fn returns c (a cleanup function or not): line 33 stores it, the finally of
\* line 35 resets Observer, compute returns; effect() then returns the disposer
FnReturn(c) ==
    /\ InFn
    /\ cleanup' = [cleanup EXCEPT ![Top.e] = c]
    /\ cleanupCalls' = [cleanupCalls EXCEPT ![Top.e] = 0]
    /\ Observer' = Null
    /\ hasDisposer' = [hasDisposer EXCEPT ![Top.e] = @ \/ Top.init]
    /\ stack' = Pop
    /\ UNCHANGED <<value, observers, nEffects, gen,
                   steps, lastCall, threw, runs, lastReads, expect, disposed, lastSet, ret>>
    /\ UNCHANGED <<everRead, domVars>>

\* (mutation of FnThrow: the exception leaves compute without the finally)
FnThrowNoFinally ==
    /\ InFn
    /\ stack' = <<>>
    /\ threw' = TRUE
    /\ UNCHANGED <<value, observers, Observer, nEffects, cleanup, gen, hasDisposer,
                   steps, lastCall, runs, lastReads, expect, disposed, cleanupCalls, lastSet, ret>>
    /\ UNCHANGED <<everRead, domVars>>

\* fn throws: the finally of line 35 resets Observer; nothing catches, so the
\* exception leaves every enclosing setter loop, fn and compute
FnThrow ==
    /\ InFn
    /\ Observer' = Null
    /\ stack' = <<>>
    /\ threw' = TRUE
    /\ UNCHANGED <<value, observers, nEffects, cleanup, gen, hasDisposer,
                   steps, lastCall, runs, lastReads, expect, disposed, cleanupCalls, lastSet, ret>>
    /\ UNCHANGED <<everRead, domVars>>

\* setter loop, lines 18-20: for (let o of observers) o(); entries added during
\* the iteration are visited too
SetterLoop ==
    /\ ~Idle
    /\ Top.k = "set"
    /\ LET f == Top
           obs == observers[f.s]
       IN IF f.i <= Len(obs)
          THEN LET o == obs[f.i]
                   base == Append(Pop, [f EXCEPT !.i = @ + 1])
               IN IF o.g = 0
                  THEN Compute(o.e, base, FALSE, f.s, f.v, runs)
                  ELSE /\ stack' = base
                       /\ UNCHANGED <<Observer, cleanup, gen, hasDisposer,
                                      threw, runs, lastReads, cleanupCalls>>
          ELSE /\ stack' = Pop
               /\ UNCHANGED <<Observer, cleanup, gen, hasDisposer,
                              threw, runs, lastReads, cleanupCalls>>
    /\ UNCHANGED <<value, observers, nEffects, steps, lastCall, expect, disposed, lastSet, ret>>
    /\ UNCHANGED <<everRead, domVars>>

(***************************************************************************)
(* Part 2: the element builder (h.ts, lines 46-200 of framework/state.ts). *)
(* JavaScript values, the attribute list of an element and the DOM calls   *)
(* the builder makes on it.                                                *)
(***************************************************************************)

\* A JavaScript value: its type and, by type, its string, number or boolean;
\* for a function, the signal it reads (an accessor) or the value it returns.
JsVal(t, s, n, b) == [t |-> t, s |-> s, n |-> n, b |-> b]
JsNull == JsVal("null", "", 0, FALSE)
Undefined == JsVal("undefined", "", 0, FALSE)
Bool(b) == JsVal("boolean", "", 0, b)
Str(s) == JsVal("string", s, 0, FALSE)
Num(n) == JsVal("number", "", n, FALSE)
Prims == {JsNull, Undefined, Bool(FALSE), Bool(TRUE), Str(""), Str("a"), Num(0), Num(5)}

\* a function () => v, and the accessor of signal s
Thunk(v) == [t |-> "function", s |-> v.t, n |-> v.n, b |-> v.b, of |-> v.s, sig |-> 0]
Acc(sg) == [t |-> "function", s |-> "", n |-> 0, b |-> FALSE, of |-> "", sig |-> sg]
Raw(v) == [t |-> v.t, s |-> v.s, n |-> v.n, b |-> v.b, of |-> "", sig |-> 0]

\* Values that are objects: the node n (a span element made by the caller),
\* the array n (its items are Arrays[n]), an event handler (a function that
\* returns undefined), a props object (its entries are given beside it).
NodeV(n) == Raw(JsVal("node", "", n, FALSE))
ArrV(n) == Raw(JsVal("array", "", n, FALSE))
Handler(n) == [Thunk(Undefined) EXCEPT !.n = n]
PropsV == Raw(JsVal("object", "", 0, FALSE))
Arrays == << <<Raw(Str("b")), Raw(Num(7))>>, <<NodeV(2), ArrV(1)>> >>

\* String(v); of an array, its items joined with commas
RECURSIVE String(_)
RECURSIVE Join(_, _)
Join(items, i) ==
    IF i > Len(items) THEN ""
    ELSE (IF i > 1 THEN "," ELSE "") \o String(items[i]) \o Join(items, i + 1)
String(v) ==
    CASE v.t = "string" -> v.s
      [] v.t = "number" -> ToString(v.n)
      [] v.t = "boolean" -> (IF v.b THEN "true" ELSE "false")
      [] v.t = "null" -> "null"
      [] v.t = "node" -> "[object HTMLSpanElement]"
      [] v.t = "array" -> Join(Arrays[v.n], 1)
      [] v.t = "object" -> "[object Object]"
      [] OTHER -> "undefined"

\* typeof v
TypeOf(v) == IF v.t \in {"null", "node", "array", "object"} THEN "object" ELSE v.t

\* JavaScript falsiness of a primitive
Falsy(v) ==
    \/ v.t \in {"null", "undefined"}
    \/ v.t = "boolean" /\ ~v.b
    \/ v.t = "string" /\ v.s = ""
    \/ v.t = "number" /\ v.n = 0

XHTML == "http://www.w3.org/1999/xhtml"
SVG == "http://www.w3.org/2000/svg"
XLINK == "http://www.w3.org/1999/xlink"
XML == "http://www.w3.org/XML/1998/namespace"
XSI == "http://www.w3.org/2001/XMLSchema-instance"
XMLNS == "http://www.w3.org/2000/xmlns/"
\* null, as a namespace (falsy like "", and the DOM reads "" as null)
NoNS == ""

\* The attribute names of the model: prefix is what precedes the first colon,
\* local what follows it, valid whether the DOM accepts the qualified name:
\* "yes", "no", or "relaxed" for a name that is no XML Name (it starts with a
\* digit) and that only a document with the relaxed name validation accepts.
KeyInfo(key) ==
    CASE key = "xlink:href" -> [prefix |-> "xlink", local |-> "href", valid |-> "yes"]
      [] key = "foo:bar" -> [prefix |-> "foo", local |-> "bar", valid |-> "yes"]
      [] key = "a b" -> [prefix |-> "", local |-> "a b", valid |-> "no"]
      [] key \in {"0", "1"} -> [prefix |-> "", local |-> key, valid |-> "relaxed"]
      [] OTHER -> [prefix |-> "", local |-> key, valid |-> "yes"]
ValidName(element, key) ==
    \/ KeyInfo(key).valid = "yes"
    \/ KeyInfo(key).valid = "relaxed" /\ element.relaxed
AttrKeys == {"class", "xlink:href", "foo:bar", "xmlns", "a b"}

\* key.replace(/^[^:]+:/, "")
StripPrefix(key) == KeyInfo(key).local

\* lines 81-86 and 90-95: the namespace of a prefixed attribute, "" if none
PrefixNS(key) ==
    CASE KeyInfo(key).prefix = "xlink" -> XLINK
      [] KeyInfo(key).prefix = "xml" -> XML
      [] KeyInfo(key).prefix = "xsi" -> XSI
      [] OTHER -> ""

\* An attribute list, in the element's order; [ns, name, local, val]
FindNS(attrs, ns, local) ==
    {i \in 1..Len(attrs) : attrs[i].ns = ns /\ attrs[i].local = local}
FindName(attrs, qname) == {i \in 1..Len(attrs) : attrs[i].name = qname}
First(S) == CHOOSE i \in S : \A j \in S : i <= j
Without(attrs, i) == SubSeq(attrs, 1, i - 1) \o SubSeq(attrs, i + 1, Len(attrs))

\* Element.setAttributeNS(ns, qname, val); ok = FALSE when it throws
\* (InvalidCharacterError, NamespaceError)
DomSetAttributeNS(element, ns, qname, val) ==
    LET k == KeyInfo(qname)
        attrs == element.attrs
        fails == \/ ~ValidName(element, qname)
                 \/ k.prefix # "" /\ ns = NoNS
                 \/ k.prefix = "xml" /\ ns # XML
                 \/ (qname = "xmlns" \/ k.prefix = "xmlns") /\ ns # XMLNS
                 \/ ns = XMLNS /\ qname # "xmlns" /\ k.prefix # "xmlns"
        hit == FindNS(attrs, ns, k.local)
    IN IF fails THEN [ok |-> FALSE, attrs |-> attrs]
       ELSE IF hit # {}
       THEN [ok |-> TRUE, attrs |-> [attrs EXCEPT ![First(hit)].val = val]]
       ELSE [ok |-> TRUE,
             attrs |-> Append(attrs, [ns |-> ns, name |-> qname, local |-> k.local, val |-> val])]

\* Element.setAttribute(qname, val); ok = FALSE when it throws (InvalidCharacterError)
DomSetAttribute(element, qname, val) ==
    LET attrs == element.attrs
        hit == FindName(attrs, qname)
    IN IF ~ValidName(element, qname) THEN [ok |-> FALSE, attrs |-> attrs]
       ELSE IF hit # {}
       THEN [ok |-> TRUE, attrs |-> [attrs EXCEPT ![First(hit)].val = val]]
       ELSE [ok |-> TRUE,
             attrs |-> Append(attrs, [ns |-> NoNS, name |-> qname, local |-> qname, val |-> val])]

\* Element.removeAttributeNS(ns, local) and Element.removeAttribute(qname): neither throws
DomRemoveAttributeNS(attrs, ns, local) ==
    LET hit == FindNS(attrs, ns, local)
    IN IF hit = {} THEN attrs ELSE Without(attrs, First(hit))
DomRemoveAttribute(attrs, qname) ==
    LET hit == FindName(attrs, qname)
    IN IF hit = {} THEN attrs ELSE Without(attrs, First(hit))

\* Element.hasAttribute(qname), Element.getAttribute(qname)
DomHasAttribute(attrs, qname) == FindName(attrs, qname) # {}
DomGetAttribute(attrs, qname) == attrs[First(FindName(attrs, qname))].val

\* lines 78-96: the namespace setOrRemoveAttr gives the attribute
AttrNS(ns, elementNS, key) ==
    LET inferred == IF ns # NoNS THEN ns ELSE elementNS
        mapped == IF PrefixNS(key) # "" THEN PrefixNS(key) ELSE inferred
    IN IF mapped = XHTML THEN NoNS ELSE mapped

\* line 98: the values that remove the attribute
Removes(v) ==
    \/ v.t \in {"null", "undefined"}
    \/ v.t = "boolean" /\ ~v.b
    \/ v.t = "string" /\ v.s = ""

\* line 113
AttrString(key, v) ==
    IF v.t = "boolean" /\ v.b THEN StripPrefix(key) ELSE String(v)

\* (mutation of SetOrRemoveAttr: lines 114-119 without the try/catch)
SetOrRemoveAttrNoRetry(ns, element, key, v) ==
    LET attrNS == AttrNS(ns, element.ns, key)
        attr == AttrString(key, v)
        tried == DomSetAttributeNS(element, attrNS, key, attr)
    IN IF Removes(v)
       THEN [attrs |-> IF attrNS # NoNS /\ attrNS # "null"
                       THEN DomRemoveAttributeNS(element.attrs, attrNS, StripPrefix(key))
                       ELSE DomRemoveAttribute(DomRemoveAttribute(element.attrs, key),
                                               StripPrefix(key)),
             threw |-> FALSE, nsThrew |-> FALSE, fallback |-> <<>>]
       ELSE [attrs |-> tried.attrs, threw |-> ~tried.ok, nsThrew |-> ~tried.ok,
             fallback |-> <<>>]

\* setOrRemoveAttr, lines 78-120, on the resolved value v: the attribute list
\* it leaves, whether it threw, whether setAttributeNS threw, and the
\* setAttribute calls it made
SetOrRemoveAttr(ns, element, key, v) ==
    LET attrNS == AttrNS(ns, element.ns, key)
        attr == AttrString(key, v)
        tried == DomSetAttributeNS(element, attrNS, key, attr)
        again == DomSetAttribute(element, key, attr)
    IN IF Removes(v)
       THEN [attrs |-> IF attrNS # NoNS /\ attrNS # "null"
                       THEN DomRemoveAttributeNS(element.attrs, attrNS, StripPrefix(key))
                       ELSE DomRemoveAttribute(DomRemoveAttribute(element.attrs, key),
                                               StripPrefix(key)),
             threw |-> FALSE, nsThrew |-> FALSE, fallback |-> <<>>]
       ELSE IF tried.ok
       THEN [attrs |-> tried.attrs, threw |-> FALSE, nsThrew |-> FALSE, fallback |-> <<>>]
       ELSE [attrs |-> again.attrs, threw |-> ~again.ok, nsThrew |-> TRUE,
             fallback |-> <<<<key, attr>>>>]

\* line 76: typeof rawValue === "function" ? rawValue() : rawValue
ResolveValue(rawValue, vals) ==
    IF rawValue.t # "function" THEN JsVal(rawValue.t, rawValue.s, rawValue.n, rawValue.b)
    ELSE IF rawValue.sig # 0 THEN vals[rawValue.sig]
    ELSE JsVal(rawValue.s, rawValue.of, rawValue.n, rawValue.b)

\* namespaceElements[tagName] (framework/ns.ts), then document.createElementNS
\* or document.createElement, lines 163-166: the namespaceURI of the new element
Tags == {"div", "svg"}
NamespaceOf(tagName) == IF tagName = "svg" THEN SVG ELSE XHTML

\* no setOrRemoveAttr call yet / no element
NoAttrCall == [called |-> FALSE, ns |-> NoNS, key |-> "", value |-> Undefined,
               threw |-> FALSE, nsThrew |-> FALSE, fallback |-> <<>>, before |-> <<>>]
NoElement == [ns |-> NoNS, relaxed |-> FALSE, attrs |-> <<>>, kids |-> <<>>,
              texts |-> <<>>, listeners |-> {}]
NewElement(ns, relaxed) == [NoElement EXCEPT !.ns = ns, !.relaxed = relaxed]
NoCall == [made |-> FALSE, tagName |-> "", first |-> Raw(Undefined), props |-> <<>>,
           children |-> <<>>, warnings |-> 0, threw |-> FALSE, failedAt |-> 0]
NoWrite == [made |-> FALSE, s |-> 0, threw |-> FALSE, before |-> NoElement]

Init ==
    /\ CoreInit
    /\ el = NoElement
    /\ domSteps = 0
    /\ lastAttr = NoAttrCall
    /\ binds = <<>>
    /\ evals = <<>>
    /\ call = NoCall
    /\ write = NoWrite

Next ==
    \/ Effect
    \/ \E s \in Signals, v \in Values : Set(s, v)
    \/ \E s \in Signals : Get(s)
    \/ \E e \in Effects : Dispose(e)
    \/ \E s \in Signals : FnGet(s)
    \/ \E s \in Signals, v \in Values : FnSet(s, v)
    \/ FnEffect
    \/ \E c \in BOOLEAN : FnReturn(c)
    \/ FnThrow
    \/ SetterLoop

Spec == Init /\ [][Next]_vars

\* The same program with no re-entrant write: no fn calls a setter.
NextNoReentry ==
    \/ Effect
    \/ \E s \in Signals, v \in Values : Set(s, v)
    \/ \E s \in Signals : Get(s)
    \/ \E e \in Effects : Dispose(e)
    \/ \E s \in Signals : FnGet(s)
    \/ FnEffect
    \/ \E c \in BOOLEAN : FnReturn(c)
    \/ FnThrow
    \/ SetterLoop

SpecNoReentry == Init /\ [][NextNoReentry]_vars

TypeOK ==
    /\ value \in [Signals -> Values]
    /\ nEffects \in 0..MaxSteps
    /\ steps \in 0..MaxSteps
(***************************************************************************)
(* Specification SpecAttr: setOrRemoveAttr called on one element, with the *)
(* namespace arguments createElement passes (null, or the namespaceURI of  *)
(* the element), every attribute name and every value, given as it is or   *)
(* as a function returning it.                                             *)
(***************************************************************************)
AttrInit ==
    /\ CoreInit
    /\ \E tagName \in Tags, relaxed \in BOOLEAN : el = NewElement(NamespaceOf(tagName), relaxed)
    /\ domSteps = 0
    /\ lastAttr = NoAttrCall
    /\ binds = <<>>
    /\ evals = <<>>
    /\ call = NoCall
    /\ write = NoWrite

\* setOrRemoveAttr(ns, element, key, rawValue), lines 75-121
AttrCall(ns, key, rawValue) ==
    /\ domSteps < MaxAttrCalls
    /\ domSteps' = domSteps + 1
    /\ LET v == ResolveValue(rawValue, value)
           r == SetOrRemoveAttr(ns, el, key, v)
       IN /\ el' = [el EXCEPT !.attrs = r.attrs]
          /\ lastAttr' = [called |-> TRUE, ns |-> ns, key |-> key, value |-> v,
                          threw |-> r.threw, nsThrew |-> r.nsThrew,
                          fallback |-> r.fallback, before |-> el.attrs]
    /\ UNCHANGED <<coreVars, histVars, binds, evals, call, write>>

AttrNext ==
    \E ns \in {NoNS, el.ns}, key \in AttrKeys, v \in Prims, f \in BOOLEAN :
        AttrCall(ns, key, IF f THEN Thunk(v) ELSE Raw(v))

SpecAttr == AttrInit /\ [][AttrNext]_vars

\* C8: after a call of setOrRemoveAttr has returned, the attribute is absent
\* iff the resolved value is falsy (null, undefined, false, "", 0), and
\* otherwise present with String(value), or with the key stripped of its
\* prefix when the value is true.
C8_AttrAbsentIffFalsy ==
    (lastAttr.called /\ ~lastAttr.threw) =>
        /\ DomHasAttribute(el.attrs, lastAttr.key) <=> ~Falsy(lastAttr.value)
        /\ ~Falsy(lastAttr.value) =>
               DomGetAttribute(el.attrs, lastAttr.key) =
                   (IF lastAttr.value = Bool(TRUE) THEN StripPrefix(lastAttr.key)
                    ELSE String(lastAttr.value))

\* C10 as stated: no failure of an attribute set escapes setOrRemoveAttr.
C10_NoAttrFailureEscapes ==
    lastAttr.called => ~lastAttr.threw

\* C10 amended: a failure of the namespaced set does not escape by itself: the
\* non-namespaced set is attempted exactly once, with the same key and value
\* (and not at all when the namespaced set succeeds), and when it succeeds
\* the attribute is set; a removal never fails; the only failure that
\* escapes is a failure of that retry, and it leaves the element unchanged.
C10_NamespacedFailureRetriedOnce ==
    lastAttr.called =>
        LET key == lastAttr.key
            attr == IF lastAttr.value = Bool(TRUE) THEN StripPrefix(key)
                    ELSE String(lastAttr.value)
        IN /\ lastAttr.nsThrew => lastAttr.fallback = <<<<key, attr>>>>
           /\ ~lastAttr.nsThrew => lastAttr.fallback = <<>>
           /\ (lastAttr.nsThrew /\ ValidName(el, key)) =>
                  /\ ~lastAttr.threw
                  /\ DomHasAttribute(el.attrs, key)
                  /\ DomGetAttribute(el.attrs, key) = attr
           /\ lastAttr.threw =>
                  /\ lastAttr.nsThrew
                  /\ ~ValidName(el, key)
                  /\ el.attrs = lastAttr.before

\* C10 witness: setAttributeNS has thrown, the retry has set the attribute
C10_Witness ==
    /\ lastAttr.called
    /\ lastAttr.nsThrew
    /\ ~lastAttr.threw
    /\ DomHasAttribute(el.attrs, lastAttr.key)

(***************************************************************************)
(* Claims about the reactive core, checked under Spec.                     *)
(***************************************************************************)

\* Some frame of the stack is a run of fn of effect e
Running(e) == \E i \in DOMAIN stack : stack[i].k = "fn" /\ stack[i].e = e

\* C1: once the disposer of an effect has been called, no setter call runs
\* that effect's fn again.  (The disposer is called between top-level calls,
\* so a run of fn of a disposed effect is a run a later setter started.)
C1_DisposerStopsEffect ==
    \A e \in Effects : disposed[e] => ~Running(e)

\* C2: when a top-level setter call on S has returned, every non-disposed
\* effect whose most recent run of fn had called S's accessor has run again.
C2_WriteRerunsEveryReader ==
    (Idle /\ lastCall = "set" /\ ~threw) => \A e \in expect : runs[e] > 0

\* C3: the cleanup function an effect holds has been invoked at most once;
\* and it has been invoked once the disposer has returned.
C3_CleanupExactlyOnce ==
    \A e \in Effects :
        /\ cleanupCalls[e] <= 1
        /\ (Idle /\ ~threw /\ lastCall = "dispose" /\ disposed[e] /\ cleanup[e])
               => cleanupCalls[e] >= 1

\* C4: an accessor call made while no effect's fn is executing returns the
\* current value and leaves every signal's observer set unchanged.
C4_ReadOutsideEffectRegistersNothing ==
    [][\A s \in Signals : Get(s) => (observers' = observers /\ ret' = value[s])]_vars

\* C4 witness: a top-level read of a signal that has an observer has returned
\* the value a setter stored.
C4_Witness ==
    /\ Idle
    /\ lastCall = "get"
    /\ \E s \in Signals : observers[s] # <<>> /\ value[s] = 1 /\ ret = 1

\* C5 as stated: a run of fn that the setter call set(v) of signal S started
\* reads v from S's accessor.
C5_RunObservesSetterArgument ==
    [][\A s \in Signals : (FnGet(s) /\ Top.s = s) => ret' = Top.v]_vars

\* C5 amended: every accessor call, inside or outside a run of fn, returns the
\* initial value until the first setter call and afterwards the argument of
\* the most recent setter call, also while that setter is still notifying.
C5_AccessorReturnsLastSet ==
    [][\A s \in Signals : (Get(s) \/ FnGet(s)) => ret' = lastSet[s]]_vars

\* C5 witness: a run of fn started by set(v) with v not the initial value has
\* read the signal and got v.
C5_Witness ==
    /\ InFn
    /\ Top.s # 0
    /\ Top.v = 1
    /\ Top.s \in lastReads[Top.e]
    /\ ret = 1
    /\ lastSet[Top.s] = 1

\* C11: every accessor call made by a run of fn finds the Observer pointer
\* designating the effect of that run (not null, not another effect) and
\* leaves that effect registered in the signal's observer set, also after
\* the run has created a nested effect or called a setter.
C11_PointerDesignatesRunningEffect ==
    [][\A s \in Signals :
          FnGet(s) => /\ Observer.e = Top.e
                      /\ \E i \in DOMAIN observers'[s] : observers'[s][i].e = Top.e]_vars

C14_PointerNullWhenIdle ==
    Idle => Observer = Null

\* C14 witness: a top-level call of effect() or of a setter has ended with an
\* exception, thrown by fn or by a cleanup function during a run.
C14_Witness ==
    /\ Idle
    /\ threw
    /\ lastCall \in {"effect", "set"}

\* C15: no step removes or moves an entry of an observer set, and at every
\* setter call on S every effect that has read S in any of its runs is in
\* the set the setter iterates, so the write invokes its computation, also
\* when its most recent run did not read S.
C15_ObserverSetsOnlyGrow ==
    [][/\ \A s \in Signals :
            /\ Len(observers'[s]) >= Len(observers[s])
            /\ SubSeq(observers'[s], 1, Len(observers[s])) = observers[s]
       /\ \A s \in Signals :
            (\E v \in Values : Set(s, v)) =>
                \A e \in Effects :
                    s \in everRead[e] =>
                        \E i \in DOMAIN observers[s] : observers[s][i] = [e |-> e, g |-> 0]]_vars

(***************************************************************************)
(* Part 3 (specification SpecDom): createElement and add, and writes to    *)
(* the signals their effects read.  createElement runs to completion in    *)
(* one step, a setter call with its loop over the observers in another:    *)
(* the arguments hold no user code but signal accessors.  The operators    *)
(* below thread a record b through the statements of the code: the element *)
(* (b.el), the observer sets (b.obs), the effects made so far (b.binds),   *)
(* their runs (b.evals), the console.warn calls (b.warnings), and whether  *)
(* an exception is propagating (b.threw).                                  *)
(***************************************************************************)
\* the state a step has led to (S holds that one state)
After(S) == CHOOSE b \in S : TRUE

Start(element, obs, bnds) ==
    [el |-> element, obs |-> obs, binds |-> bnds, evals |-> [e \in 1..Len(bnds) |-> 0],
     warnings |-> 0, threw |-> FALSE, failedAt |-> 0]

TextRef(n) == [t |-> "text", id |-> n]
NodeRef(n) == [t |-> "node", id |-> n]

\* parent.appendChild(child): a node that is already a child moves to the end
AppendChild(kids, ref) ==
    LET Other(k) == k # ref IN Append(SelectSeq(kids, Other), ref)

\* The closures handed to effect(): lines 131-133 (kind "text") and 184-186
\* (kind "attr").
TextBinding(child, n) == [kind |-> "text", ns |-> NoNS, key |-> "", raw |-> child, node |-> n]
AttrBinding(ns, key, rawValue) == [kind |-> "attr", ns |-> ns, key |-> key, raw |-> rawValue, node |-> 0]

\* (mutation of RunBinding: Observer is not set while fn runs)
RunBindingUntracked(b, e, vals) ==
    LET bd == b.binds[e]
        v == ResolveValue(bd.raw, vals)
        r == SetOrRemoveAttr(bd.ns, b.el, bd.key, v)
    IN IF bd.kind = "attr"
       THEN [b EXCEPT !.el.attrs = r.attrs, !.threw = r.threw, !.evals[e] = @ + 1]
       ELSE [b EXCEPT !.el.texts[bd.node] = String(v), !.evals[e] = @ + 1]

\* compute() of effect e, lines 29-37, with the fn of lines 131-133 or 184-186:
\* no cleanup (these fn return undefined), Observer = compute, fn runs (an
\* accessor it calls registers compute, lines 11-13), and the finally resets
\* Observer; an exception of setOrRemoveAttr propagates.
RunBinding(b, e, vals) ==
    LET bd == b.binds[e]
        obs1 == IF bd.raw.t = "function" /\ bd.raw.sig # 0
                THEN AccessorAdd(b.obs, ObserverOf(e), bd.raw.sig)
                ELSE b.obs
        v == ResolveValue(bd.raw, vals)
        r == SetOrRemoveAttr(bd.ns, b.el, bd.key, v)
    IN IF bd.kind = "attr"
       THEN [b EXCEPT !.el.attrs = r.attrs, !.obs = obs1, !.threw = r.threw,
                      !.evals[e] = @ + 1]
       ELSE [b EXCEPT !.el.texts[bd.node] = String(v), !.obs = obs1, !.evals[e] = @ + 1]

\* effect(fn), lines 25-39: a new effect whose compute runs at once
NewEffect(b, bd, vals) ==
    After({RunBinding(made, Len(made.binds), vals) :
              made \in {[b EXCEPT !.binds = Append(@, bd), !.evals = Append(@, 0)]}})

\* add(parent, child), lines 124-138
RECURSIVE Add(_, _, _)
RECURSIVE AddAll(_, _, _, _)
Add(b, child, vals) ==
    CASE child.t = "array" -> AddAll(b, Arrays[child.n], 1, vals)
      [] child.t = "node" -> [b EXCEPT !.el.kids = AppendChild(@, NodeRef(child.n))]
      [] child.t = "function" ->
           LET n == Len(b.el.texts) + 1
           IN After({[made EXCEPT !.el.kids = AppendChild(@, TextRef(n))] :
                        made \in {NewEffect([b EXCEPT !.el.texts = Append(@, "")],
                                            TextBinding(child, n), vals)}})
      [] child.t \in {"number", "string"} ->
           LET n == Len(b.el.texts) + 1
           IN [b EXCEPT !.el.texts = Append(@, String(child)),
                        !.el.kids = AppendChild(@, TextRef(n))]
      [] OTHER -> b

\* children.forEach(c => add(parent, c)), lines 126 and 194
AddAll(b, children, i, vals) ==
    IF i > Len(children) \/ b.threw THEN b
    ELSE After({AddAll(added, children, i + 1, vals) : added \in {Add(b, children[i], vals)}})

\* The keys of the model that start with "on", and key.slice(2).toLowerCase()
StartsWithOn(key) == key \in {"onclick", "onClick"}
EventName(key) ==
    CASE key = "onclick" -> "click"
      [] key = "onClick" -> "click"

\* Object.entries(first): of a props object its entries, of an array the
\* pairs of an index (as a string) and an item
IndexKey(i) == ToString(i - 1)
Entries(first, props) ==
    IF first.t = "array"
    THEN [i \in 1..Len(Arrays[first.n]) |-> <<IndexKey(i), Arrays[first.n][i]>>]
    ELSE props

\* (mutation of ProcessProp: a value that is no function stops createElement)
ProcessPropStrict(b, key, rawValue, vals) ==
    IF StartsWithOn(key)
    THEN IF TypeOf(rawValue) # "function"
         THEN [b EXCEPT !.warnings = @ + 1, !.threw = TRUE]
         ELSE [b EXCEPT !.el.listeners = @ \cup {[ev |-> EventName(key), h |-> rawValue.n]}]
    ELSE NewEffect(b, AttrBinding(IF key = "xmlns" THEN NoNS ELSE b.el.ns, key, rawValue), vals)

\* the callback of lines 170-188 for one entry
ProcessProp(b, key, rawValue, vals) ==
    IF StartsWithOn(key)
    THEN IF TypeOf(rawValue) # "function"
         THEN [b EXCEPT !.warnings = @ + 1]
         ELSE [b EXCEPT !.el.listeners = @ \cup {[ev |-> EventName(key), h |-> rawValue.n]}]
    ELSE NewEffect(b, AttrBinding(IF key = "xmlns" THEN NoNS ELSE b.el.ns, key, rawValue), vals)

\* Object.entries(first).forEach(...), line 170: an exception ends the loop
RECURSIVE ProcessProps(_, _, _, _)
ProcessProps(b, entries, i, vals) ==
    IF i > Len(entries) THEN b
    ELSE After({IF done.threw THEN [done EXCEPT !.failedAt = i]
                ELSE ProcessProps(done, entries, i + 1, vals) :
                   done \in {ProcessProp(b, entries[i][1], entries[i][2], vals)}})

\* lines 169 and 191: the tests on the second argument
IsPropsObject(first) == ~Falsy(first) /\ TypeOf(first) = "object" /\ first.t # "node"
IsAddedFirst(first) ==
    /\ ~Falsy(first)
    /\ \/ TypeOf(first) = "function"
       \/ TypeOf(first) = "string"
       \/ first.t = "node"
       \/ first.t = "array"

\* createElement(tagName, first, ...children), lines 158-200, in a document
\* whose name validation is relaxed or not
CreateElement(tagName, relaxed, first, props, children, obs, vals) ==
    After({IF b2.threw THEN b2 ELSE AddAll(b2, children, 1, vals) :
              b2 \in {IF ~b1.threw /\ IsAddedFirst(first) THEN Add(b1, first, vals) ELSE b1 :
                         b1 \in {IF IsPropsObject(first)
                                  THEN ProcessProps(b0, Entries(first, props), 1, vals)
                                  ELSE b0 :
                                     b0 \in {Start(NewElement(NamespaceOf(tagName), relaxed),
                                                    obs, <<>>)}}}})

\* the loop of the setter, lines 18-20, from the i-th observer on
RECURSIVE Notify(_, _, _, _)
Notify(b, os, i, vals) ==
    IF i > Len(os) \/ b.threw THEN b
    ELSE After({Notify(ran, os, i + 1, vals) : ran \in {RunBinding(b, os[i].e, vals)}})

\* ---- the arguments of the model ----
DomVals == {Str(""), Str("a")}
PropEntries ==
    { <<"class", Raw(Str("a"))>>, <<"title", Acc(1)>>, <<"a b", Acc(1)>>,
      <<"onClick", Handler(1)>>, <<"onclick", Raw(Str("a"))>> }
Kids == {Raw(Str("a")), Raw(Num(0)), NodeV(1), ArrV(2)} \cup {Acc(s) : s \in Signals}
Firsts == Kids \cup {Raw(Num(5)), Raw(Str("")), ArrV(1)}
\* props objects of n entries: the keys of an object are distinct
PropSeqs(n) ==
    {p \in [1..n -> PropEntries] : \A i, j \in 1..n : p[i][1] = p[j][1] => i = j}

\* The documents createElement is called in: the two name validations differ
\* on the keys of an array only.
Documents(first) == IF first.t = "array" THEN BOOLEAN ELSE {FALSE}

DomInit ==
    /\ value = [s \in Signals |-> Str("")]
    /\ observers = [s \in Signals |-> <<>>]
    /\ Observer = Null
    /\ nEffects = 0
    /\ cleanup = [e \in Effects |-> FALSE]
    /\ gen = [e \in Effects |-> 0]
    /\ hasDisposer = [e \in Effects |-> FALSE]
    /\ stack = <<>>
    /\ steps = 0
    /\ lastCall = "none"
    /\ threw = FALSE
    /\ runs = [e \in Effects |-> 0]
    /\ lastReads = [e \in Effects |-> {}]
    /\ everRead = [e \in Effects |-> {}]
    /\ expect = {}
    /\ disposed = [e \in Effects |-> FALSE]
    /\ cleanupCalls = [e \in Effects |-> 0]
    /\ lastSet = value
    /\ ret = 0
    /\ el = NoElement
    /\ domSteps = 0
    /\ lastAttr = NoAttrCall
    /\ binds = <<>>
    /\ evals = <<>>
    /\ call = NoCall
    /\ write = NoWrite

domFrame == <<cleanup, gen, hasDisposer, stack, steps, runs, lastReads, everRead, expect,
              disposed, cleanupCalls, ret, lastAttr>>

\* the caller calls createElement (once)
DomCreate(tagName, relaxed, first, props, children) ==
    /\ ~call.made
    /\ first.t = "undefined" => Len(children) = 0
    /\ first.t # "object" => Len(props) = 0
    /\ LET cost == Len(props) + Len(children)
                   + (IF first.t \in {"undefined", "object"} THEN 0 ELSE 1)
       IN /\ domSteps + cost <= MaxDomSteps
          /\ domSteps' = domSteps + cost
    /\ \E b \in {CreateElement(tagName, relaxed, first, props, children, observers, value)} :
          /\ el' = b.el
          /\ observers' = b.obs
          /\ binds' = b.binds
          /\ evals' = b.evals
          /\ nEffects' = Len(b.binds)
          /\ threw' = b.threw
          /\ call' = [made |-> TRUE, tagName |-> tagName, first |-> first, props |-> props,
                      children |-> children, warnings |-> b.warnings, threw |-> b.threw,
                      failedAt |-> b.failedAt]
    /\ Observer' = Null
    /\ lastCall' = "createElement"
    /\ UNCHANGED <<value, lastSet, write, domFrame>>

\* the caller calls the setter of signal s, lines 16-21
DomSet(s, v) ==
    /\ domSteps < MaxDomSteps
    /\ domSteps' = domSteps + 1
    /\ value' = SetterStore(s, v)
    /\ lastSet' = [lastSet EXCEPT ![s] = v]
    /\ \E b \in {Notify(Start(el, observers, binds), observers[s], 1, SetterStore(s, v))} :
          /\ el' = b.el
          /\ observers' = b.obs
          /\ evals' = b.evals
          /\ threw' = b.threw
          /\ Observer' = IF Len(observers[s]) > 0 THEN Null ELSE Observer
          /\ write' = [made |-> call.made, s |-> s, threw |-> b.threw, before |-> el]
    /\ lastCall' = "set"
    /\ UNCHANGED <<binds, nEffects, call, domFrame>>

DomNext ==
    \/ \E tagName \in Tags, first \in Firsts \cup {PropsV, Raw(Undefined)} :
         \E relaxed \in Documents(first), p \in 0..(MaxDomSteps - domSteps) :
           \E k \in 0..(MaxDomSteps - domSteps - p) :
             \E props \in PropSeqs(p), children \in [1..k -> Kids] :
               DomCreate(tagName, relaxed, first, props, children)
    \/ \E s \in Signals, v \in DomVals : DomSet(s, v)

SpecDom == DomInit /\ [][DomNext]_vars

\* ---- what the claims speak of ----
\* the effect binds[e] called the accessor of signal s
Reads(e, s) == binds[e].raw.t = "function" /\ binds[e].raw.sig = s

\* what binds[e] writes to, as found in the element: the content of its text
\* node, or the attributes named by its key
Target(element, e) ==
    IF binds[e].kind = "text"
    THEN {element.texts[binds[e].node]}
    ELSE {element.attrs[i].val : i \in FindName(element.attrs, binds[e].key)}

\* after a setter call: the effects that read s have run once, the others have
\* not run and what they write to is as it was before the call
ExactlyReadersRerun ==
    \A e \in 1..Len(binds) :
        IF Reads(e, write.s)
        THEN evals[e] = 1
        ELSE evals[e] = 0 /\ Target(el, e) = Target(write.before, e)

RECURSIVE Wanted(_, _)
Wanted(children, i) ==
    IF i > Len(children) THEN <<>>
    ELSE LET c == children[i]
             here == CASE c.t = "array" -> Wanted(Arrays[c.n], 1)
                       [] c.t = "node" -> <<[t |-> "node", id |-> c.n, data |-> ""]>>
                       [] c.t = "function" ->
                            <<[t |-> "text", id |-> 0, data |-> String(ResolveValue(c, value))]>>
                       [] c.t \in {"number", "string"} ->
                            <<[t |-> "text", id |-> 0, data |-> String(c)]>>
                       [] OTHER -> <<>>
         IN here \o Wanted(children, i + 1)

\* a node given more than once is a child once, at its last position
KeepLast(nodes) ==
    LET Last(i) == nodes[i].t = "node" => \A j \in (i + 1)..Len(nodes) : nodes[j] # nodes[i]
        idx == {i \in 1..Len(nodes) : Last(i)}
        RECURSIVE Pick(_)
        Pick(i) == IF i > Len(nodes) THEN <<>>
                   ELSE (IF i \in idx THEN <<nodes[i]>> ELSE <<>>) \o Pick(i + 1)
    IN Pick(1)

\* the child nodes of the element, described the same way
ChildNodes(element) ==
    [i \in 1..Len(element.kids) |->
        IF element.kids[i].t = "text"
        THEN [t |-> "text", id |-> 0, data |-> element.texts[element.kids[i].id]]
        ELSE [t |-> "node", id |-> element.kids[i].id, data |-> ""]]

IsChildKind(v) == v.t \in {"string", "number", "node", "array", "function"}

\* C7: when createElement(tag, a1, ..., an) has returned, the child nodes of
\* the element are the nodes of the arguments that are strings, numbers, DOM
\* nodes, arrays or accessors (a1 included when it is no props object), in
\* argument order with arrays flattened in place.
C7_ChildrenAppendedInOrder ==
    (lastCall = "createElement" /\ ~call.threw) =>
        ChildNodes(el) =
            KeepLast(Wanted((IF IsChildKind(call.first) THEN <<call.first>> ELSE <<>>)
                            \o call.children, 1))

\* the entries of the props object that createElement got to
Given == IF IsPropsObject(call.first) THEN Entries(call.first, call.props) ELSE <<>>
Reached == IF call.failedAt = 0 THEN 1..Len(Given) ELSE 1..call.failedAt
Malformed(i) == StartsWithOn(Given[i][1]) /\ TypeOf(Given[i][2]) # "function"
Listens(i) == StartsWithOn(Given[i][1]) /\ TypeOf(Given[i][2]) = "function"

C12_FirstIsPropsOrChild ==
    (lastCall = "createElement" /\ call.first.t \in {"node", "array", "string", "function"}) =>
        /\ ~call.threw
        /\ \A e \in 1..Len(binds) : binds[e].kind # "attr"
        /\ el.attrs = <<>>
        /\ el.listeners = {}
        /\ call.first # Raw(Str("")) =>
               ChildNodes(el) = KeepLast(Wanted(<<call.first>> \o call.children, 1))

====
